---- MODULE Spec2Model ----
(***************************************************************************)
(* Model of diagnose_auth.py: the Monarch authentication diagnostic.       *)
(*                                                                         *)
(* A Python str is a sequence of one-character strings, so that lower(),   *)
(* strip() and the substring test `needle in s` are computed on the        *)
(* characters.  The external collaborators (the keyring, the MonarchMoney  *)
(* client, requests.get, standard input, the interpreter's asyncio) are    *)
(* the environment: each of their results is chosen with \E from a small   *)
(* set.  The imports of the script are taken to succeed.                   *)
(***************************************************************************)
EXTENDS Integers, Sequences, FiniteSets, TLC

VARIABLES pc, token, email, result, account_count, exc, resp, out, calls,
          getTimeout, getOutcome, mainReturn, exitCode,
          probe, tvResult, flResult

vars == <<pc, token, email, result, account_count, exc, resp, out, calls,
          getTimeout, getOutcome, mainReturn, exitCode,
          probe, tvResult, flResult>>

----------------------------------------------------------------------------
(* Bounds of the model *)

\* An exception message is the concatenation of at most MaxParts fragments.
MaxParts == 2
\* get_accounts returns at most MaxAccounts entries under "accounts".
MaxAccounts == 2

(* Program constant: requests.get(..., timeout=5) *)
REQUEST_TIMEOUT == 5

----------------------------------------------------------------------------
(* Python strings *)

UpperChars == <<"A","B","C","D","E","F","G","H","I","J","K","L","M","N","O","P","Q","R","S","T","U","V","W","X","Y","Z">>
LowerChars == <<"a","b","c","d","e","f","g","h","i","j","k","l","m","n","o","p","q","r","s","t","u","v","w","x","y","z">>

\* str.lower() on one character
LowerChar(c) ==
    IF \E i \in 1..26 : UpperChars[i] = c
    THEN LowerChars[CHOOSE i \in 1..26 : UpperChars[i] = c]
    ELSE c

\* str.lower()
StrLower(s) == [i \in 1..Len(s) |-> LowerChar(s[i])]

\* `needle in hay` for two str
StrContains(needle, hay) ==
    \E k \in 0..(Len(hay) - Len(needle)) :
        \A i \in 1..Len(needle) : hay[k + i] = needle[i]

WhiteSpace == {" ", "\t", "\n"}

\* str.strip()
StrStrip(s) ==
    LET keep == {i \in 1..Len(s) : s[i] \notin WhiteSpace}
    IN  IF keep = {} THEN <<>>
        ELSE LET lo == CHOOSE i \in keep : \A j \in keep : i <= j
                 hi == CHOOSE i \in keep : \A j \in keep : j <= i
             IN  SubSeq(s, lo, hi)

S401 == <<"4","0","1">>
S429 == <<"4","2","9">>
SUnauthorized == <<"u","n","a","u","t","h","o","r","i","z","e","d">>
SAuthentication == <<"a","u","t","h","e","n","t","i","c","a","t","i","o","n">>
SRateLimit == <<"r","a","t","e"," ","l","i","m","i","t">>
STooManyRequests == <<"t","o","o"," ","m","a","n","y"," ","r","e","q","u","e","s","t","s">>

\* str(TypeError) of len(None)
TypeErrorNoLen == <<"o","b","j","e","c","t"," ","o","f"," ","t","y","p","e"," ","'","N","o","n","e","T","y","p","e","'"," ","h","a","s"," ","n","o"," ","l","e","n","(",")">>

----------------------------------------------------------------------------
(* Python values *)

PyNone == [type |-> "NoneType", str |-> <<>>]
PyStr(s) == [type |-> "str", str |-> s]
PyUnset == [type |-> "unset", str |-> <<>>]

\* bool(v) for a value that is None or a str
Truthy(v) == v.type = "str" /\ Len(v.str) > 0

\* What get_accounts can return: None, a dict, a list.
\*   type      "NoneType" | "dict" | "list"
\*   accType   type of the value under "accounts": "absent" | "list" | "NoneType"
\*   accLen    its number of entries when it is a list
\*   nOther    number of other keys (dict) or of elements (list)
Response(t, at, n, o) == [type |-> t, accType |-> at, accLen |-> n, nOther |-> o]
NoResponse == Response("unset", "absent", 0, 0)

\* bool(accounts)
RespTruthy(r) ==
    CASE r.type = "dict" -> (r.accType # "absent") \/ r.nOther > 0
      [] r.type = "list" -> r.nOther > 0
      [] OTHER -> FALSE

\* Outcome of an awaited call: it returns a value or raises Exception(msg).
Returned(r) == [raised |-> FALSE, msg |-> <<>>, resp |-> r]
Raised(m) == [raised |-> TRUE, msg |-> m, resp |-> NoResponse]
NoExc == [raised |-> FALSE, msg |-> <<>>]

----------------------------------------------------------------------------
(* What the environment can do *)

RECURSIVE Concats(_, _)
Concats(frags, n) ==
    IF n = 0 THEN {<<>>}
    ELSE LET shorter == Concats(frags, n - 1)
         IN  shorter \cup {m \o f : m \in shorter, f \in frags}

Fragments ==
    { S401, S429, <<"4">>, <<"0","1">>, <<"2","9">>,
      <<"U","n","a","u","t","h","o","r","i","z","e","d">>,
      SAuthentication,
      <<"R","a","t","e"," ","L","i","m","i","t">>,
      STooManyRequests,
      <<" ","x">> }

\* str(e) of the exceptions the client can raise
Messages == Concats(Fragments, MaxParts)

Responses ==
    { Response("NoneType", "absent", 0, 0),
      Response("dict", "absent", 0, 0),
      Response("dict", "absent", 0, 1),
      Response("dict", "NoneType", 0, 0),
      Response("dict", "NoneType", 0, 1),
      Response("list", "absent", 0, 0),
      Response("list", "absent", 0, 1) }
    \cup { Response("dict", "list", n, o) : n \in 0..MaxAccounts, o \in 0..1 }

\* Outcomes of `await client.get_accounts()`
ApiOutcomes == {Returned(r) : r \in Responses} \cup {Raised(m) : m \in Messages}

\* Outcomes of `await client.login(...)`: it returns None or raises
LoginOutcomes == {Returned(Response("NoneType", "absent", 0, 0))}
                 \cup {Raised(m) : m \in Messages}

\* What secure_session.load_token() yields: a token string or absence
TokenValues ==
    { PyNone, PyStr(<<>>),
      PyStr(<<"G","O","O","D","T","O","K","E","N">>),
      PyStr(<<"B","A","D","T","O","K","E","N">>) }

\* What the user types at the e-mail prompt
EmailInputs == { <<>>, <<" "," ">>, <<"a","@","b">>, <<" ","a","@","b"," ">> }

\* Base classes (the class itself included) of what requests.get can raise
ExcBases(cls) ==
    CASE cls = "ReadTimeout" -> {"ReadTimeout", "Timeout", "RequestException", "Exception"}
      [] cls = "ConnectTimeout" -> {"ConnectTimeout", "ConnectionError", "Timeout", "RequestException", "Exception"}
      [] cls = "ConnectionError" -> {"ConnectionError", "RequestException", "Exception"}
      [] cls = "SSLError" -> {"SSLError", "ConnectionError", "RequestException", "Exception"}
      [] cls = "TooManyRedirects" -> {"TooManyRedirects", "RequestException", "Exception"}
      [] OTHER -> {cls, "Exception"}

GetExceptions == {"ReadTimeout", "ConnectTimeout", "ConnectionError", "SSLError",
                  "TooManyRedirects", "ValueError"}

\* Outcomes of requests.get: a response of some status, or an exception
GetOutcomes ==
    { [kind |-> "response", status |-> st, cls |-> "Response"] : st \in {200, 404, 500} }
    \cup { [kind |-> "exception", status |-> 0, cls |-> c] : c \in GetExceptions }
NoGet == [kind |-> "unset", status |-> 0, cls |-> "unset"]

----------------------------------------------------------------------------
(* test_token_validity and test_fresh_login *)

\* accounts.get("accounts", []): the value under "accounts", else the default []
GetAccountsValue(r) ==
    IF r.accType = "absent" THEN [type |-> "list", len |-> 0]
    ELSE [type |-> r.accType, len |-> r.accLen]

\* Variant of TryBody: the count is taken only from a non-empty "accounts"
\* list (`if accounts.get("accounts"):`), an empty one counts as malformed
TryBody_EmptyIsInvalid(o) ==
    IF o.raised THEN [raised |-> TRUE, msg |-> o.msg, ret |-> "unset", count |-> -1, tag |-> "RAISED"]
    ELSE IF RespTruthy(o.resp) /\ o.resp.type = "dict"
            /\ GetAccountsValue(o.resp).type = "list" /\ GetAccountsValue(o.resp).len > 0
    THEN [raised |-> FALSE, msg |-> <<>>, ret |-> "True",
          count |-> GetAccountsValue(o.resp).len, tag |-> "FOUND_ACCOUNTS"]
    ELSE [raised |-> FALSE, msg |-> <<>>, ret |-> "False", count |-> -1, tag |-> "UNEXPECTED_FORMAT"]

\* The try block after the awaited call (the same text in both functions):
\* a truthy dict gives True and the count, len() of a value without a length
\* raises TypeError inside the try, anything else gives False.
TryBody(o) ==
    IF o.raised THEN [raised |-> TRUE, msg |-> o.msg, ret |-> "unset", count |-> -1, tag |-> "RAISED"]
    ELSE IF RespTruthy(o.resp) /\ o.resp.type = "dict"
    THEN LET v == GetAccountsValue(o.resp)
         IN  IF v.type = "list"
             THEN [raised |-> FALSE, msg |-> <<>>, ret |-> "True", count |-> v.len, tag |-> "FOUND_ACCOUNTS"]
             ELSE [raised |-> TRUE, msg |-> TypeErrorNoLen, ret |-> "unset", count |-> -1, tag |-> "RAISED"]
    ELSE [raised |-> FALSE, msg |-> <<>>, ret |-> "False", count |-> -1, tag |-> "UNEXPECTED_FORMAT"]

\* Variant of TokenExcept: the rate-limit clause forgets the "429" test
TokenExcept_No429(msg) ==
    LET error_str == StrLower(msg)
    IN  IF StrContains(S401, error_str) \/ StrContains(SUnauthorized, error_str)
           \/ StrContains(SAuthentication, error_str)
        THEN [ret |-> "False", tag |-> "TOKEN_EXPIRED_OR_INVALID"]
        ELSE IF StrContains(SRateLimit, error_str)
                \/ StrContains(STooManyRequests, error_str)
        THEN [ret |-> "None", tag |-> "RATE_LIMITED"]
        ELSE [ret |-> "False", tag |-> "TOKEN_TEST_FAILED"]

\* The except clause of test_token_validity
TokenExcept(msg) ==
    LET error_str == StrLower(msg)
    IN  IF StrContains(S401, error_str) \/ StrContains(SUnauthorized, error_str)
           \/ StrContains(SAuthentication, error_str)
        THEN [ret |-> "False", tag |-> "TOKEN_EXPIRED_OR_INVALID"]
        ELSE IF StrContains(S429, error_str) \/ StrContains(SRateLimit, error_str)
                \/ StrContains(STooManyRequests, error_str)
        THEN [ret |-> "None", tag |-> "RATE_LIMITED"]
        ELSE [ret |-> "False", tag |-> "TOKEN_TEST_FAILED"]

\* The except clause of test_fresh_login
FreshExcept(msg) ==
    LET error_str == StrLower(msg)
    IN  IF StrContains(S429, error_str) \/ StrContains(SRateLimit, error_str)
           \/ StrContains(STooManyRequests, error_str)
        THEN [ret |-> "None", tag |-> "RATE_LIMITED"]
        ELSE IF StrContains(S401, error_str) \/ StrContains(SUnauthorized, error_str)
        THEN [ret |-> "False", tag |-> "AUTHENTICATION_FAILED"]
        ELSE [ret |-> "False", tag |-> "FRESH_LOGIN_FAILED"]

\* test_token_validity, given what get_accounts did
TestTokenValidity(o) ==
    LET b == TryBody(o)
    IN  IF b.raised
        THEN LET h == TokenExcept(b.msg)
             IN  [ret |-> h.ret, count |-> -1, tag |-> h.tag,
                  exc |-> [raised |-> TRUE, msg |-> b.msg]]
        ELSE [ret |-> b.ret, count |-> b.count, tag |-> b.tag, exc |-> NoExc]

\* test_fresh_login from the point where login has returned, given what
\* get_accounts did; also its handling of an exception raised by login
TestFreshLogin(o) ==
    LET b == TryBody(o)
    IN  IF b.raised
        THEN LET h == FreshExcept(b.msg)
             IN  [ret |-> h.ret, count |-> -1, tag |-> h.tag,
                  exc |-> [raised |-> TRUE, msg |-> b.msg]]
        ELSE [ret |-> b.ret, count |-> b.count, tag |-> b.tag, exc |-> NoExc]

\* asyncio.run(x) and loop.run_until_complete(x): x must be a coroutine
\* (or, for run_until_complete, a future); anything else raises
AsyncioRun(x, has_run) ==
    IF x.type = "coroutine" THEN [raised |-> FALSE, cls |-> "none"]
    ELSE IF has_run THEN [raised |-> TRUE, cls |-> "ValueError"]
    ELSE [raised |-> TRUE, cls |-> "TypeError"]

----------------------------------------------------------------------------
(* The decisions of main() *)

\* Variant of HasToken: `if token is not None:`
HasToken_IsNotNone(t) == t.type = "str"

\* `if token:` after load_token()
HasToken(t) == Truthy(t)

\* The report after asyncio.run(test_fresh_login(...)):
\* `if result:` / `elif result is None:` / `else:`
FreshReportFor(r) ==
    IF r = "True" THEN "FRESH: login successful, run login_setup.py"
    ELSE IF r = "None" THEN "FRESH: rate limited, wait 30-60 minutes"
    ELSE "FRESH: login failed, check credentials"

\* The CONCLUSION printed after CHECK 2
ConclusionFor(r) ==
    IF r = "True" THEN <<"CONCLUSION: valid and working">>
    ELSE IF r = "False" THEN <<"CONCLUSION: expired or invalid">>
    ELSE IF r = "None" THEN <<"CONCLUSION: cannot determine token validity">>
    ELSE <<>>

\* Variant of ReachabilityReport: the ConnectionError clause comes first
ReachabilityReport_ConnFirst(o) ==
    IF o.kind = "response" THEN "API: reachable"
    ELSE IF "ConnectionError" \in ExcBases(o.cls) THEN "API: cannot connect"
    ELSE IF "Timeout" \in ExcBases(o.cls) THEN "API: timeout"
    ELSE "API: check failed"

\* The try/except around requests.get: the first matching clause reports
ReachabilityReport(o) ==
    IF o.kind = "response" THEN "API: reachable"
    ELSE IF "Timeout" \in ExcBases(o.cls) THEN "API: timeout"
    ELSE IF "ConnectionError" \in ExcBases(o.cls) THEN "API: cannot connect"
    ELSE "API: check failed"

\* Key Findings of the summary
FindingsFor(t, r) ==
    IF ~Truthy(t) THEN <<"FINDINGS: no token stored">>
    ELSE IF r = "True" THEN <<"FINDINGS: token valid">>
    ELSE IF r = "False" THEN <<"FINDINGS: token expired or invalid">>
    ELSE IF r = "None" THEN <<"FINDINGS: rate limited">>
    ELSE <<>>

\* Variant of ActionFor: `elif not result:` in place of `elif result is False:`
ActionFor_NotResult(t, r) ==
    IF ~Truthy(t) THEN "ACTION: run login_setup.py (no token)"
    ELSE IF r # "True" THEN "ACTION: run login_setup.py"
    ELSE IF r = "None" THEN "ACTION: wait 30-60 minutes"
    ELSE "ACTION: check dashboard scripts"

\* RECOMMENDED ACTION of the summary
ActionFor(t, r) ==
    IF ~Truthy(t) THEN "ACTION: run login_setup.py (no token)"
    ELSE IF r = "False" THEN "ACTION: run login_setup.py"
    ELSE IF r = "None" THEN "ACTION: wait 30-60 minutes"
    ELSE "ACTION: check dashboard scripts"

----------------------------------------------------------------------------
(* The run of the script *)

NoProbe == Returned(NoResponse)

\* One external operation of the run and how far it got:
\* "pending" while awaited, then "returned" or "raised"
Call(op, status) == [op |-> op, status |-> status]

\* The awaited call (the last one issued) completes
Completed(cs, status) == [cs EXCEPT ![Len(cs)].status = status]

Init ==
    /\ pc = "start"
    /\ token = PyUnset
    /\ email = <<>>
    /\ result = "unset"
    /\ account_count = -1
    /\ exc = NoExc
    /\ resp = NoResponse
    /\ out = <<>>
    /\ calls = <<>>
    /\ getTimeout = 0
    /\ getOutcome = NoGet
    /\ mainReturn = PyUnset
    /\ exitCode = -1
    /\ probe = NoProbe
    /\ tvResult = "unset"
    /\ flResult = "unset"

classifyVars == <<probe, tvResult, flResult>>

\* main(): banner, CHECK 1, load_token() and the branch on the token
LoadToken ==
    /\ pc = "start"
    /\ \E t \in TokenValues :
        /\ token' = t
        /\ calls' = Append(calls, Call("load_token", "returned"))
        /\ IF HasToken(t)
           THEN /\ out' = out \o <<"BANNER", "CHECK 1", "TOKEN EXISTS">>
                /\ pc' = "check2"
           ELSE /\ out' = out \o <<"BANNER", "CHECK 1", "NO TOKEN">>
                /\ pc' = "prompt"
    /\ UNCHANGED <<email, result, account_count, exc, resp, getTimeout,
                   getOutcome, mainReturn, exitCode, classifyVars>>

\* The e-mail prompt: an empty answer skips the login and main returns
Prompt ==
    /\ pc = "prompt"
    /\ \E raw \in EmailInputs :
        /\ email' = StrStrip(raw)
        /\ IF Len(StrStrip(raw)) > 0
           THEN pc' = "fresh_login" /\ mainReturn' = mainReturn
           ELSE pc' = "main_return" /\ mainReturn' = PyNone
    /\ UNCHANGED <<token, result, account_count, exc, resp, out, calls,
                   getTimeout, getOutcome, exitCode, classifyVars>>

\* asyncio.run(test_fresh_login(email, password)) up to `await client.login`
FreshLoginIssue ==
    /\ pc = "fresh_login"
    /\ out' = Append(out, "Testing fresh login")
    /\ calls' = Append(calls, Call("login", "pending"))
    /\ pc' = "login_wait"
    /\ UNCHANGED <<token, email, result, account_count, exc, resp, getTimeout,
                   getOutcome, mainReturn, exitCode, classifyVars>>

\* login returns, or raises into the except clause
FreshLoginReturn ==
    /\ pc = "login_wait"
    /\ \E o \in LoginOutcomes :
        IF o.raised
        THEN LET r == TestFreshLogin(o)
             IN  /\ calls' = Completed(calls, "raised")
                 /\ result' = r.ret
                 /\ exc' = r.exc
                 /\ out' = Append(out, r.tag)
                 /\ pc' = "fresh_report"
        ELSE /\ calls' = Completed(calls, "returned")
             /\ pc' = "fresh_accounts"
             /\ UNCHANGED <<result, exc, out>>
    /\ UNCHANGED <<token, email, account_count, resp, getTimeout,
                   getOutcome, mainReturn, exitCode, classifyVars>>

\* `accounts = await client.get_accounts()` of test_fresh_login
FreshAccountsIssue ==
    /\ pc = "fresh_accounts"
    /\ calls' = Append(calls, Call("get_accounts", "pending"))
    /\ pc' = "fresh_accounts_wait"
    /\ UNCHANGED <<token, email, result, account_count, exc, resp, out, getTimeout,
                   getOutcome, mainReturn, exitCode, classifyVars>>

FreshAccountsReturn ==
    /\ pc = "fresh_accounts_wait"
    /\ \E o \in ApiOutcomes :
        LET r == TestFreshLogin(o)
        IN  /\ calls' = Completed(calls, IF o.raised THEN "raised" ELSE "returned")
            /\ resp' = o.resp
            /\ result' = r.ret
            /\ account_count' = r.count
            /\ exc' = r.exc
            /\ out' = Append(out, r.tag)
    /\ pc' = "fresh_report"
    /\ UNCHANGED <<token, email, getTimeout, getOutcome, mainReturn,
                   exitCode, classifyVars>>

\* The report on the fresh login, then `return`
FreshReport ==
    /\ pc = "fresh_report"
    /\ out' = Append(out, FreshReportFor(result))
    /\ mainReturn' = PyNone
    /\ pc' = "main_return"
    /\ UNCHANGED <<token, email, result, account_count, exc, resp, calls,
                   getTimeout, getOutcome, exitCode, classifyVars>>

\* CHECK 2: asyncio.run(test_token_validity(token)) up to `await client.get_accounts()`
TokenValidityIssue ==
    /\ pc = "check2"
    /\ out' = out \o <<"CHECK 2", "Testing token validity">>
    /\ calls' = Append(calls, Call("get_accounts", "pending"))
    /\ pc' = "check2_wait"
    /\ UNCHANGED <<token, email, result, account_count, exc, resp, getTimeout,
                   getOutcome, mainReturn, exitCode, classifyVars>>

\* Variant of TokenValidityReturn: a rate-limited answer is tried again
TokenValidityReturn_Retry ==
    /\ pc = "check2_wait"
    /\ \E o \in ApiOutcomes :
        LET r == TestTokenValidity(o)
        IN  /\ calls' = Completed(calls, IF o.raised THEN "raised" ELSE "returned")
            /\ resp' = o.resp
            /\ result' = r.ret
            /\ account_count' = r.count
            /\ exc' = r.exc
            /\ out' = Append(out, r.tag)
            /\ pc' = IF r.ret = "None" THEN "check2" ELSE "conclusion"
    /\ UNCHANGED <<token, email, getTimeout, getOutcome, mainReturn,
                   exitCode, classifyVars>>

TokenValidityReturn ==
    /\ pc = "check2_wait"
    /\ \E o \in ApiOutcomes :
        LET r == TestTokenValidity(o)
        IN  /\ calls' = Completed(calls, IF o.raised THEN "raised" ELSE "returned")
            /\ resp' = o.resp
            /\ result' = r.ret
            /\ account_count' = r.count
            /\ exc' = r.exc
            /\ out' = Append(out, r.tag)
    /\ pc' = "conclusion"
    /\ UNCHANGED <<token, email, getTimeout, getOutcome, mainReturn,
                   exitCode, classifyVars>>

Conclusion ==
    /\ pc = "conclusion"
    /\ out' = out \o ConclusionFor(result)
    /\ pc' = "check3"
    /\ UNCHANGED <<token, email, result, account_count, exc, resp, calls,
                   getTimeout, getOutcome, mainReturn, exitCode, classifyVars>>

\* CHECK 3: requests.get("https://api.monarchmoney.com", timeout=5)
ReachabilityIssue ==
    /\ pc = "check3"
    /\ out' = Append(out, "CHECK 3")
    /\ calls' = Append(calls, Call("GET", "pending"))
    /\ getTimeout' = REQUEST_TIMEOUT
    /\ pc' = "check3_wait"
    /\ UNCHANGED <<token, email, result, account_count, exc, resp, getOutcome,
                   mainReturn, exitCode, classifyVars>>

ReachabilityReturn ==
    /\ pc = "check3_wait"
    /\ \E o \in GetOutcomes :
        /\ calls' = Completed(calls, IF o.kind = "exception" THEN "raised" ELSE "returned")
        /\ getOutcome' = o
        /\ out' = Append(out, ReachabilityReport(o))
    /\ pc' = "summary"
    /\ UNCHANGED <<token, email, result, account_count, exc, resp,
                   getTimeout, mainReturn, exitCode, classifyVars>>

\* DIAGNOSTIC SUMMARY and RECOMMENDED ACTION; main falls off its end
Summary ==
    /\ pc = "summary"
    /\ out' = out \o <<"DIAGNOSTIC SUMMARY">> \o FindingsFor(token, result)
                  \o <<ActionFor(token, result)>>
    /\ mainReturn' = PyNone
    /\ pc' = "main_return"
    /\ UNCHANGED <<token, email, result, account_count, exc, resp, calls,
                   getTimeout, getOutcome, exitCode, classifyVars>>

\* The entry point hands what main() returned to asyncio.run, or to
\* run_until_complete on an interpreter without asyncio.run; an exception
\* nobody catches ends the process with status 1
EntryPoint ==
    /\ pc = "main_return"
    /\ \E has_run \in BOOLEAN :
        exitCode' = IF AsyncioRun(mainReturn, has_run).raised THEN 1 ELSE 0
    /\ pc' = "exited"
    /\ UNCHANGED <<token, email, result, account_count, exc, resp, out, calls,
                   getTimeout, getOutcome, mainReturn, classifyVars>>

Next ==
    \/ LoadToken
    \/ Prompt
    \/ FreshLoginIssue
    \/ FreshLoginReturn
    \/ FreshAccountsIssue
    \/ FreshAccountsReturn
    \/ FreshReport
    \/ TokenValidityIssue
    \/ TokenValidityReturn
    \/ Conclusion
    \/ ReachabilityIssue
    \/ ReachabilityReturn
    \/ Summary
    \/ EntryPoint

Spec == Init /\ [][Next]_vars

----------------------------------------------------------------------------
(* The two classifiers on one and the same outcome of the last API call *)

mainVars == <<pc, token, email, result, account_count, exc, resp, out, calls,
              getTimeout, getOutcome, mainReturn, exitCode>>

InitClassify ==
    /\ pc = "classify"
    /\ token = PyUnset
    /\ email = <<>>
    /\ result = "unset"
    /\ account_count = -1
    /\ exc = NoExc
    /\ resp = NoResponse
    /\ out = <<>>
    /\ calls = <<>>
    /\ getTimeout = 0
    /\ getOutcome = NoGet
    /\ mainReturn = PyUnset
    /\ exitCode = -1
    /\ probe \in ApiOutcomes
    /\ tvResult = "unset"
    /\ flResult = "unset"

ClassifyByTokenValidity ==
    /\ pc = "classify"
    /\ tvResult = "unset"
    /\ tvResult' = TestTokenValidity(probe).ret
    /\ UNCHANGED <<mainVars, probe, flResult>>

ClassifyByFreshLogin ==
    /\ pc = "classify"
    /\ flResult = "unset"
    /\ flResult' = TestFreshLogin(probe).ret
    /\ UNCHANGED <<mainVars, probe, tvResult>>

NextClassify == ClassifyByTokenValidity \/ ClassifyByFreshLogin

SpecClassify == InitClassify /\ [][NextClassify]_vars

----------------------------------------------------------------------------
(* Properties *)

Has(tag) == \E i \in DOMAIN out : out[i] = tag
CallsOf(op) == {i \in DOMAIN calls : calls[i].op = op}
TokenLoaded == token.type # "unset"
AfterConclusion == {"check3", "check3_wait", "summary", "main_return", "exited"}
MainOver == {"main_return", "exited"}

\* The message mentions the 401 / unauthorized / authentication group
InAuthGroup(msg) ==
    \/ StrContains(S401, StrLower(msg))
    \/ StrContains(SUnauthorized, StrLower(msg))
    \/ StrContains(SAuthentication, StrLower(msg))

\* main reported the rate-limited outcome and not the invalid one
RateLimitedReported ==
    /\ (Truthy(token) /\ pc \in AfterConclusion) =>
          /\ Has("CONCLUSION: cannot determine token validity")
          /\ ~Has("CONCLUSION: expired or invalid")
    /\ (TokenLoaded /\ ~Truthy(token) /\ pc \in MainOver) =>
          /\ Has("FRESH: rate limited, wait 30-60 minutes")
          /\ ~Has("FRESH: login failed, check credentials")

\* C1: whenever the exception caught by test_token_validity or by
\* test_fresh_login has a message containing "401", the function returns
\* False (INVALID), never True and never None.
C1_Contains401IsInvalid ==
    (exc.raised /\ StrContains(S401, exc.msg)) => result = "False"

\* C2 as stated: whenever the caught exception's message contains "429",
\* whatever else it contains, the function returns None (RATE_LIMITED) and
\* main reports the rate-limited conclusion.
C2_Contains429IsRateLimited ==
    (exc.raised /\ StrContains(S429, exc.msg)) =>
        (result = "None" /\ RateLimitedReported)

\* C2 amended: whenever the caught exception's message contains "429" and
\* none of "401", "unauthorized", "authentication" (case-insensitively), both
\* functions return None (RATE_LIMITED) and main reports the rate-limited
\* conclusion, not the expired/invalid one.
C2_Only429IsRateLimited ==
    (exc.raised /\ StrContains(S429, exc.msg) /\ ~InAuthGroup(exc.msg)) =>
        (result = "None" /\ RateLimitedReported)

C2_Witness ==
    /\ exc.raised /\ StrContains(S429, exc.msg) /\ ~InAuthGroup(exc.msg)
    /\ Truthy(token) /\ pc = "exited" /\ result = "None"
    /\ Has("CONCLUSION: cannot determine token validity")

\* C3: every run that ends, ends with exit code 0 (no uncaught exception,
\* the entry point's asyncio.run(main()) included).
C3_ExitCodeZero == pc = "exited" => exitCode = 0

\* C4: with no token (None or "") test_token_validity is never entered and no
\* get_accounts is issued before a login; test_fresh_login is entered only
\* with no token and a non-empty e-mail.
C4_NoTokenShortCircuits ==
    /\ (TokenLoaded /\ ~Truthy(token)) =>
          /\ ~Has("Testing token validity")
          /\ ~Has("CHECK 2")
          /\ pc \in {"prompt", "fresh_login", "login_wait", "fresh_accounts",
                     "fresh_accounts_wait", "fresh_report", "main_return", "exited"}
          /\ \A i \in CallsOf("get_accounts") : \E j \in CallsOf("login") : j < i
    /\ Has("Testing fresh login") =>
          (TokenLoaded /\ ~Truthy(token) /\ Len(email) > 0)
    /\ (CallsOf("login") # {}) => Has("Testing fresh login")

C4_Witness ==
    /\ token = PyStr(<<>>) /\ Has("Testing fresh login")
    /\ ~Has("Testing token validity") /\ pc = "exited"

\* C5 as stated: when get_accounts returns a mapping with an "accounts" key,
\* whatever is under it, test_token_validity returns True and the reported
\* count is the number of entries under "accounts" (none for a null).
C5_AccountsKeyIsValid ==
    (Has("Testing token validity") /\ resp.type = "dict" /\ resp.accType # "absent") =>
        /\ result = "True"
        /\ account_count = (IF resp.accType = "list" THEN resp.accLen ELSE 0)

\* C5 amended: when get_accounts returns a mapping whose "accounts" value is a
\* list (the empty list included), test_token_validity returns True and the
\* reported count is the length of that list.
C5_AccountsListIsValid ==
    (Has("Testing token validity") /\ resp.type = "dict" /\ resp.accType = "list") =>
        /\ result = "True"
        /\ account_count = resp.accLen
        /\ Has("FOUND_ACCOUNTS")

C5_Witness ==
    /\ Has("Testing token validity")
    /\ resp.type = "dict" /\ resp.accType = "list" /\ resp.accLen = 0
    /\ result = "True" /\ account_count = 0

\* The decision table of the report: result -> conclusion, finding, action
ReportTable ==
    { [r |-> "True", c |-> "CONCLUSION: valid and working",
       f |-> "FINDINGS: token valid", a |-> "ACTION: check dashboard scripts"],
      [r |-> "False", c |-> "CONCLUSION: expired or invalid",
       f |-> "FINDINGS: token expired or invalid", a |-> "ACTION: run login_setup.py"],
      [r |-> "None", c |-> "CONCLUSION: cannot determine token validity",
       f |-> "FINDINGS: rate limited", a |-> "ACTION: wait 30-60 minutes"] }

\* C6: with a stored token, every conclusion, finding and recommended action
\* printed is the one the table gives for the validity result, the conclusion
\* is printed once CHECK 2 is over and all three once main is over.
C6_ReportAgreesWithResult ==
    Truthy(token) =>
        /\ \A row \in ReportTable :
              (Has(row.c) \/ Has(row.f) \/ Has(row.a)) => result = row.r
        /\ ~Has("ACTION: run login_setup.py (no token)")
        /\ ~Has("FINDINGS: no token stored")
        /\ pc \in AfterConclusion => \E row \in ReportTable : Has(row.c)
        /\ pc \in MainOver =>
              \E row \in ReportTable : Has(row.c) /\ Has(row.f) /\ Has(row.a)

C6_Witness ==
    /\ Truthy(token) /\ result = "None" /\ pc = "exited"
    /\ Has("CONCLUSION: cannot determine token validity")
    /\ Has("FINDINGS: rate limited")
    /\ Has("ACTION: wait 30-60 minutes")

\* C7: when main is over, the connectivity check and the summary have been
\* reached, whichever earlier check failed.
C7_SummaryAlwaysReached ==
    pc \in MainOver =>
        /\ Has("CHECK 3")
        /\ CallsOf("GET") # {}
        /\ Has("DIAGNOSTIC SUMMARY")

ReachabilityTags == {"API: reachable", "API: timeout", "API: cannot connect",
                     "API: check failed"}

\* C8: one GET with a 5-second timeout; once it is over exactly one outcome is
\* reported: a response of any status as reachable, a timeout (read or connect)
\* as timeout and never as a connection error, another connection error as
\* cannot connect, any other exception as check failed; and the run goes on to
\* the summary.
C8_ReachabilityOutcome ==
    /\ Cardinality(CallsOf("GET")) <= 1
    /\ (CallsOf("GET") # {}) => getTimeout = 5
    /\ (getOutcome.kind = "unset") => \A t \in ReachabilityTags : ~Has(t)
    /\ (getOutcome.kind # "unset") =>
          /\ {t \in ReachabilityTags : Has(t)} =
                { CASE getOutcome.kind = "response" -> "API: reachable"
                    [] getOutcome.cls \in {"ReadTimeout", "ConnectTimeout"} -> "API: timeout"
                    [] getOutcome.cls \in {"ConnectionError", "SSLError"} -> "API: cannot connect"
                    [] OTHER -> "API: check failed" }
          /\ Cardinality({i \in DOMAIN out : out[i] \in ReachabilityTags}) = 1
          /\ pc \in {"summary", "main_return", "exited"}
          /\ pc \in MainOver => Has("DIAGNOSTIC SUMMARY")

C8_Witness ==
    /\ getOutcome.cls = "ConnectTimeout"
    /\ Has("API: timeout") /\ ~Has("API: cannot connect")
    /\ Has("DIAGNOSTIC SUMMARY")

\* C9: on one and the same outcome of the final API call, test_token_validity
\* and test_fresh_login return the same result.
C9_SameClassification ==
    (tvResult # "unset" /\ flResult # "unset") => tvResult = flResult

\* C10: each external operation is issued at most once in a run, only the
\* call issued last can still be awaited, get_accounts of the fresh-login path
\* is issued only after login has returned without error, and the GET is
\* issued only after the validity result has been reported.
C10_NothingRetried ==
    /\ \A op \in {"load_token", "get_accounts", "login", "GET"} :
          Cardinality(CallsOf(op)) <= 1
    /\ \A i \in DOMAIN calls : calls[i].status = "pending" => i = Len(calls)
    /\ (TokenLoaded /\ ~Truthy(token)) =>
          \A i \in CallsOf("get_accounts") :
              \E j \in CallsOf("login") : j < i /\ calls[j].status = "returned"
    /\ \A i \in DOMAIN calls : i > 1 => calls[1].op = "load_token"
    /\ (CallsOf("GET") # {}) =>
          /\ result # "unset"
          /\ \E row \in ReportTable : Has(row.c) /\ row.r = result
    /\ (result # "unset") =>
          \A i \in CallsOf("get_accounts") \cup CallsOf("login") :
              calls[i].status # "pending"

C10_Witness ==
    /\ pc = "exited" /\ result = "None"
    /\ Len(calls) = 3
    /\ calls[2] = Call("login", "returned")
    /\ calls[3] = Call("get_accounts", "raised")

====
